---------------------------- MODULE Spec2Model ----------------------------
(***************************************************************************)
(* UPixelOSComponent (PixelOSComponent.cpp / .h): a component that loads   *)
(* pixelos_ffi.so, resolves five entry points into member function         *)
(* pointers, boots one VM instance through them, steps it on every tick    *)
(* and copies its framebuffer into a transient texture.                    *)
(*                                                                         *)
(* The component's members are the fields of the record State; every       *)
(* handler is an operator from a state record (and the inputs the          *)
(* environment chooses) to the state record it leaves behind, composed of  *)
(* the calls the handler makes in the order the code makes them.  The      *)
(* dynamic module, the VM behind the entry points and the platform calls   *)
(* are the environment: what a call returns is drawn from a small set.     *)
(*                                                                         *)
(* Calling a null function pointer ends the process ("crash").  Calling a  *)
(* pointer into a module whose last reference was freed is undefined: the  *)
(* call either crashes or runs the code that is still mapped; both         *)
(* outcomes are kept (the input `works`).  Reading past the end of the     *)
(* framebuffer in Memcpy is undefined the same way (the input `overrun`).  *)
(***************************************************************************)
EXTENDS Integers, Sequences, FiniteSets

VARIABLES
    OSDisplayTexture,        \* UTexture2D*: NullTexture or a texture record
    FFIHandle,               \* void*: Null or DllHandle
    OSInstance,              \* void*: Null or a VM handle
    pixelos_create,          \* the five function pointers: TRUE iff non-null
    pixelos_destroy,
    pixelos_step,
    pixelos_send_key,
    pixelos_get_framebuffer,
    bHasBegunPlay,           \* UActorComponent: between BeginPlay and EndPlay
    moduleRefs,              \* platform: open references to pixelos_ffi.so
    nextHandle,              \* VM: the next handle create hands out
    vmLive,                  \* VM: handles created and not destroyed
    destroyCount,            \* VM: how often destroy was invoked per handle
    stepCount,               \* VM: steps performed (the framebuffer generation)
    calls,                   \* the calls made by the most recent handler
    outcome,                 \* of the most recent handler: "void" or "crash"
    lastOp,                  \* the most recent handler
    lastFb,                  \* what get_framebuffer returned in it
    pre                      \* the members as the most recent handler found them

vars == << OSDisplayTexture, FFIHandle, OSInstance, pixelos_create,
           pixelos_destroy, pixelos_step, pixelos_send_key,
           pixelos_get_framebuffer, bHasBegunPlay, moduleRefs, nextHandle, vmLive,
           destroyCount, stepCount, calls, outcome, lastOp, lastFb, pre >>

-----------------------------------------------------------------------------
(* Bounds of the model *)

MaxHandles == 2      \* handles the VM hands out before create only fails
MaxSteps == 2        \* steps the VM performs
Slack == 4           \* bytes by which a framebuffer may miss the surface size

(* Program constants *)

Null == 0
DllHandle == 1
ConfigWidth == 1024
ConfigHeight == 768
BytesPerPixel == 4

EntryNames == { "pixelos_create", "pixelos_destroy", "pixelos_step",
                "pixelos_send_key", "pixelos_get_framebuffer" }

\* What a module file may export: everything, or everything but one entry.
ExportSets == { EntryNames } \cup { EntryNames \ {n} : n \in EntryNames }

OSNames == { "PixelOS", "Other" }

Handles == 1 .. MaxHandles

Min(a, b) == IF a < b THEN a ELSE b

-----------------------------------------------------------------------------
(* Values *)

OSConfig(w, h) == [width |-> w, height |-> h]

NoConfig == OSConfig(0, 0)

NullTexture == [width |-> 0, height |-> 0, bulk |-> 0,
                gen |-> 0, valid |-> 0, over |-> 0]

\* UTexture2D::CreateTransient(InSizeX, InSizeY, PF_R8G8B8A8): a texture whose
\* mip 0 holds InSizeX * InSizeY * 4 bytes; null for an empty size.
CreateTransient(InSizeX, InSizeY) ==
    IF InSizeX > 0 /\ InSizeY > 0
    THEN [width |-> InSizeX, height |-> InSizeY,
          bulk |-> InSizeX * InSizeY * BytesPerPixel,
          gen |-> 0, valid |-> 0, over |-> 0]
    ELSE NullTexture

\* The size of the mip taken as its number of pixels, not of bytes.
GetBulkDataSize_Pixels(texture) == texture.width * texture.height

\* Mip.BulkData.GetBulkDataSize()
GetBulkDataSize(texture) == texture.bulk

\* A framebuffer pointer: null, or len bytes of the frame of generation gen.
FbNull == [gen |-> 0, len |-> 0]

FrameLengths(texture) ==
    { n \in { texture.bulk - Slack, texture.bulk, texture.bulk + Slack } : n > 0 }

\* What the VM may answer to get_framebuffer: null (len 0) or some length.
FbAnswers == { 0 } \cup FrameLengths(CreateTransient(ConfigWidth, ConfigHeight))

-----------------------------------------------------------------------------
(* The state record and the calls *)

State ==
    [ OSDisplayTexture |-> OSDisplayTexture, FFIHandle |-> FFIHandle,
      OSInstance |-> OSInstance, pixelos_create |-> pixelos_create,
      pixelos_destroy |-> pixelos_destroy, pixelos_step |-> pixelos_step,
      pixelos_send_key |-> pixelos_send_key,
      pixelos_get_framebuffer |-> pixelos_get_framebuffer,
      bHasBegunPlay |-> bHasBegunPlay, moduleRefs |-> moduleRefs, nextHandle |-> nextHandle, vmLive |-> vmLive,
      destroyCount |-> destroyCount, stepCount |-> stepCount, calls |-> calls,
      outcome |-> outcome, lastOp |-> lastOp, lastFb |-> lastFb, pre |-> pre ]

Becomes(t) ==
    /\ OSDisplayTexture' = t.OSDisplayTexture
    /\ FFIHandle' = t.FFIHandle
    /\ OSInstance' = t.OSInstance
    /\ pixelos_create' = t.pixelos_create
    /\ pixelos_destroy' = t.pixelos_destroy
    /\ pixelos_step' = t.pixelos_step
    /\ pixelos_send_key' = t.pixelos_send_key
    /\ pixelos_get_framebuffer' = t.pixelos_get_framebuffer
    /\ bHasBegunPlay' = t.bHasBegunPlay
    /\ moduleRefs' = t.moduleRefs
    /\ nextHandle' = t.nextHandle
    /\ vmLive' = t.vmLive
    /\ destroyCount' = t.destroyCount
    /\ stepCount' = t.stepCount
    /\ calls' = t.calls
    /\ outcome' = t.outcome
    /\ lastOp' = t.lastOp
    /\ lastFb' = t.lastFb
    /\ pre' = t.pre

Crashed(s) == s.outcome = "crash"

Snapshot(s) ==
    [ OSDisplayTexture |-> s.OSDisplayTexture, FFIHandle |-> s.FFIHandle,
      OSInstance |-> s.OSInstance ]

\* A handler is entered: the record of the previous handler is dropped.
Enter(s, op) ==
    [s EXCEPT !.calls = << >>, !.lastOp = op, !.lastFb = FbNull,
              !.pre = Snapshot(s)]

CallRecord(s, fn, handle, config, size, resolved) ==
    [ fn |-> fn, handle |-> handle, config |-> config, size |-> size,
      mapped |-> s.moduleRefs > 0, resolved |-> resolved ]

\* A call of the platform (GetDllHandle, FreeDllHandle, Memcpy).
Platform(s, fn, size) ==
    [s EXCEPT !.calls = Append(@, CallRecord(s, fn, Null, NoConfig, size, TRUE))]

\* A call through the member function pointer fn.
Invoke(s, fn, handle, config, works) ==
    LET t == [s EXCEPT !.calls =
                  Append(@, CallRecord(s, fn, handle, config, 0, s[fn]))]
    IN  IF ~s[fn] \/ (s.moduleRefs = 0 /\ ~works)
        THEN [t EXCEPT !.outcome = "crash"]
        ELSE t

-----------------------------------------------------------------------------
(* UPixelOSComponent *)

\* FMemory::Memcpy(TextureData, framebuffer, n) into the locked mip.
Memcpy(s, framebuffer, n, overrun) ==
    LET t == Platform(s, "Memcpy", n)
    IN  IF framebuffer.len < n /\ ~overrun
        THEN [t EXCEPT !.outcome = "crash"]
        ELSE [t EXCEPT !.OSDisplayTexture =
                  [@ EXCEPT !.gen = framebuffer.gen,
                            !.valid = Min(n, framebuffer.len),
                            !.over = n - Min(n, framebuffer.len)]]

UpdateTexture(s, works, answer, overrun) ==
    IF Crashed(s) THEN s
    ELSE IF s.OSInstance # Null /\ s.OSDisplayTexture # NullTexture
    THEN LET t == Invoke(s, "pixelos_get_framebuffer", s.OSInstance, NoConfig, works)
             framebuffer == IF answer = 0 THEN FbNull
                            ELSE [gen |-> t.stepCount, len |-> answer]
             u == [t EXCEPT !.lastFb = framebuffer]
         IN  IF Crashed(t) THEN t
             ELSE IF framebuffer # FbNull
             THEN Memcpy(u, framebuffer, GetBulkDataSize(u.OSDisplayTexture), overrun)
             ELSE u
    ELSE s

\* pixelos_step(OSInstance)
Step(s, works) ==
    IF Crashed(s) THEN s
    ELSE LET t == Invoke(s, "pixelos_step", s.OSInstance, NoConfig, works)
         IN  IF Crashed(t) THEN t ELSE [t EXCEPT !.stepCount = @ + 1]

\* TickComponent with the two calls of its body swapped: the texture is
\* refreshed first and the VM stepped afterwards.
TickBody_CopyThenStep(s, works1, works2, answer, overrun) ==
    IF s.OSInstance # Null
    THEN Step(UpdateTexture(s, works2, answer, overrun), works1)
    ELSE s

TickBody(s, works1, works2, answer, overrun) ==
    IF s.OSInstance # Null
    THEN UpdateTexture(Step(s, works1), works2, answer, overrun)
    ELSE s

\* BootOS without the line that creates the transient texture.
BootBody_NoSurface(s, OSName, works, handle) ==
    IF s.pixelos_create
    THEN LET config == OSConfig(ConfigWidth, ConfigHeight)
             t == Invoke(s, "pixelos_create", Null, config, works)
         IN  IF Crashed(t) THEN t
             ELSE [t EXCEPT
                     !.OSInstance = handle,
                     !.vmLive = IF handle = Null THEN @ ELSE @ \cup {handle},
                     !.nextHandle = IF handle = Null THEN @ ELSE @ + 1]
    ELSE s

\* BootOS with a configuration chosen by the name: any other name than
\* "PixelOS" boots a portrait screen.
BootBody_NameSelectsConfig(s, OSName, works, handle) ==
    IF s.pixelos_create
    THEN LET config == IF OSName = "PixelOS"
                       THEN OSConfig(ConfigWidth, ConfigHeight)
                       ELSE OSConfig(ConfigHeight, ConfigWidth)
             t == Invoke(s, "pixelos_create", Null, config, works)
         IN  IF Crashed(t) THEN t
             ELSE [t EXCEPT
                     !.OSInstance = handle,
                     !.vmLive = IF handle = Null THEN @ ELSE @ \cup {handle},
                     !.nextHandle = IF handle = Null THEN @ ELSE @ + 1,
                     !.OSDisplayTexture =
                         CreateTransient(config.width, config.height)]
    ELSE s

BootBody(s, OSName, works, handle) ==
    IF s.pixelos_create
    THEN LET config == OSConfig(ConfigWidth, ConfigHeight)
             t == Invoke(s, "pixelos_create", Null, config, works)
         IN  IF Crashed(t) THEN t
             ELSE [t EXCEPT
                     !.OSInstance = handle,
                     !.vmLive = IF handle = Null THEN @ ELSE @ \cup {handle},
                     !.nextHandle = IF handle = Null THEN @ ELSE @ + 1,
                     !.OSDisplayTexture =
                         CreateTransient(config.width, config.height)]
    ELSE s

LoadFFILibrary(s, fileExists, opens, exports) ==
    IF fileExists
    THEN LET t == Platform(s, "GetDllHandle", 0)
             u == [t EXCEPT !.FFIHandle = IF opens THEN DllHandle ELSE Null,
                            !.moduleRefs = IF opens THEN @ + 1 ELSE @]
         IN  IF u.FFIHandle # Null
             THEN [u EXCEPT
                     !.pixelos_create = "pixelos_create" \in exports,
                     !.pixelos_destroy = "pixelos_destroy" \in exports,
                     !.pixelos_step = "pixelos_step" \in exports,
                     !.pixelos_send_key = "pixelos_send_key" \in exports,
                     !.pixelos_get_framebuffer =
                         "pixelos_get_framebuffer" \in exports]
             ELSE u
    ELSE s

DestroyInstance(s, works) ==
    IF s.OSInstance # Null
    THEN LET t == Invoke(s, "pixelos_destroy", s.OSInstance, NoConfig, works)
         IN  IF Crashed(t) THEN t
             ELSE [t EXCEPT !.vmLive = @ \ {s.OSInstance},
                            !.destroyCount[s.OSInstance] = @ + 1,
                            !.OSInstance = Null]
    ELSE s

FreeModule(s) ==
    IF Crashed(s) THEN s
    ELSE IF s.FFIHandle # Null
    THEN LET t == Platform(s, "FreeDllHandle", 0)
         IN  [t EXCEPT !.moduleRefs = @ - 1, !.FFIHandle = Null]
    ELSE s

UnloadFFILibrary(s, works) == FreeModule(DestroyInstance(s, works))

\* Super::BeginPlay(), then LoadFFILibrary().
BeginPlayBody(s, fileExists, opens, exports) ==
    LoadFFILibrary([s EXCEPT !.bHasBegunPlay = TRUE], fileExists, opens, exports)

\* UnloadFFILibrary(), then Super::EndPlay().
EndPlayBody(s, works) ==
    LET t == UnloadFFILibrary(s, works)
    IN  IF Crashed(t) THEN t ELSE [t EXCEPT !.bHasBegunPlay = FALSE]

-----------------------------------------------------------------------------
(* The handlers as actions *)

\* The engine begins play on a component that has not begun play, ends play
\* on one that has, and calls BootOS and TickComponent whenever it likes.
\* An input a handler cannot read in the current state (the exports of a
\* module that does not open, the fate of a call into a module that is
\* mapped, the overrun of a copy that stays inside its source) is fixed to one
\* value.
BeginPlay ==
    /\ outcome # "crash"
    /\ ~bHasBegunPlay
    /\ \E fileExists \in BOOLEAN, opens \in BOOLEAN, exports \in ExportSets :
          /\ opens => fileExists
          /\ ~opens => exports = EntryNames
          /\ Becomes(BeginPlayBody(Enter(State, "BeginPlay"),
                                   fileExists, opens, exports))

EndPlay ==
    /\ outcome # "crash"
    /\ bHasBegunPlay
    /\ \E works \in BOOLEAN :
          /\ moduleRefs > 0 => works
          /\ Becomes(EndPlayBody(Enter(State, "EndPlay"), works))

TickComponent ==
    /\ outcome # "crash"
    /\ OSInstance # Null => stepCount < MaxSteps
    /\ \E works1 \in BOOLEAN, works2 \in BOOLEAN, answer \in FbAnswers,
          overrun \in BOOLEAN :
          /\ moduleRefs > 0 => works1 /\ works2
          /\ answer >= GetBulkDataSize(OSDisplayTexture) => overrun
          /\ Becomes(TickBody(Enter(State, "TickComponent"),
                              works1, works2, answer, overrun))

BootOS ==
    /\ outcome # "crash"
    /\ \E OSName \in OSNames, works \in BOOLEAN,
          handle \in {Null} \cup (IF nextHandle <= MaxHandles
                                  THEN {nextHandle} ELSE {}) :
          /\ moduleRefs > 0 => works
          /\ Becomes(BootBody(Enter(State, "BootOS"), OSName, works, handle))

\* UPixelOSComponent::UPixelOSComponent(): the three members it assigns; the
\* function pointers are members of a UObject, whose storage is zero-filled
\* before the constructor runs.
Init ==
    /\ OSDisplayTexture = NullTexture
    /\ FFIHandle = Null
    /\ OSInstance = Null
    /\ pixelos_create = FALSE
    /\ pixelos_destroy = FALSE
    /\ pixelos_step = FALSE
    /\ pixelos_send_key = FALSE
    /\ pixelos_get_framebuffer = FALSE
    /\ bHasBegunPlay = FALSE
    /\ moduleRefs = 0
    /\ nextHandle = 1
    /\ vmLive = {}
    /\ destroyCount = [h \in Handles |-> 0]
    /\ stepCount = 0
    /\ calls = << >>
    /\ outcome = "void"
    /\ lastOp = "Constructor"
    /\ lastFb = FbNull
    /\ pre = [ OSDisplayTexture |-> NullTexture, FFIHandle |-> Null,
               OSInstance |-> Null ]

Next == BeginPlay \/ EndPlay \/ TickComponent \/ BootOS

Spec == Init /\ [][Next]_vars

-----------------------------------------------------------------------------
(* What the most recent handler did *)

Fns == [i \in DOMAIN calls |-> calls[i].fn]

Made(fn) == \E i \in DOMAIN calls : calls[i].fn = fn

EntryCalls == { i \in DOMAIN calls : calls[i].fn \in EntryNames }

Created == { h \in Handles : h < nextHandle }

TickOrder == << "pixelos_step", "pixelos_get_framebuffer", "Memcpy" >>

IsPrefix(a, b) == Len(a) <= Len(b) /\ \A i \in DOMAIN a : a[i] = b[i]

SteppingTick == lastOp = "TickComponent" /\ pre.OSInstance # Null

-----------------------------------------------------------------------------
(* Claims *)

\* C1: the module is never released while a VM handle created from it is
\* still live, destroy is never invoked after the module has been released,
\* and in every reachable state a live OSInstance implies a loaded FFIHandle.
C1_DestroyBeforeUnload ==
    /\ OSInstance # Null => FFIHandle # Null
    /\ (Made("FreeDllHandle") /\ moduleRefs = 0) => vmLive = {}
    /\ \A i \in DOMAIN calls :
          calls[i].fn = "pixelos_destroy" => calls[i].mapped

\* C2: destroy is invoked exactly once for every handle create returned: once
\* a shutdown has returned, every created handle has been destroyed once and
\* none twice, and a shutdown that finds no live handle invokes destroy zero
\* times.
C2_DestroyOncePerBoot ==
    /\ \A h \in Handles : destroyCount[h] <= 1
    /\ (lastOp = "EndPlay" /\ outcome = "void") =>
          \A h \in Created : destroyCount[h] = 1
    /\ (lastOp = "EndPlay" /\ pre.OSInstance = Null) =>
          ~Made("pixelos_destroy")

\* C3: a BootOS that finds a live handle is rejected with AlreadyBooted, does
\* not invoke create and leaves the handle and its surface unchanged; at most
\* one created-and-not-destroyed handle exists in any reachable state.
C3_SecondBootRejected ==
    /\ (lastOp = "BootOS" /\ pre.OSInstance # Null) =>
          /\ outcome = "AlreadyBooted"
          /\ ~Made("pixelos_create")
          /\ OSInstance = pre.OSInstance
          /\ OSDisplayTexture = pre.OSDisplayTexture
    /\ Cardinality(vmLive) <= 1

\* C4: create is invoked only when all five entry points were resolved
\* non-null, and no handler ever calls an unresolved (null) entry.
C4_AllEntriesResolved ==
    /\ Made("pixelos_create") =>
          /\ pixelos_create /\ pixelos_destroy /\ pixelos_step
          /\ pixelos_send_key /\ pixelos_get_framebuffer
    /\ \A i \in EntryCalls : calls[i].resolved

\* C5: a tick issued when no VM handle is live fails with the explicit error
\* NoActiveSession and invokes none of the entries.
C5_InactiveTickFailsFast ==
    (lastOp = "TickComponent" /\ pre.OSInstance = Null) =>
        /\ outcome = "NoActiveSession"
        /\ calls = << >>

\* C6 as stated: a tick of a booted session that returns has made exactly the
\* calls step, get_framebuffer and the copy, in this order.
C6_EveryStepHasItsCopy ==
    (SteppingTick /\ outcome = "void") => Fns = TickOrder

\* C6 as amended: a tick of a booted session invokes step first; once step has
\* returned it invokes get_framebuffer exactly once; the framebuffer, when one
\* is returned, is copied in the same tick and is the frame of that step; a
\* null framebuffer is not copied; and no other handler invokes step,
\* get_framebuffer or the copy.
C6_StepThenReadThenCopy ==
    /\ SteppingTick =>
          /\ Len(calls) >= 1 /\ IsPrefix(Fns, TickOrder)
          /\ Len(calls) = 1 => outcome = "crash"
          /\ Len(calls) = 2 => (outcome = "crash" \/ lastFb = FbNull)
          /\ Len(calls) = 3 <=> lastFb # FbNull
          /\ lastFb # FbNull => lastFb.gen = stepCount
          /\ (Len(calls) = 3 /\ outcome = "void") =>
                OSDisplayTexture.gen = stepCount
          /\ \A i \in EntryCalls : calls[i].handle = pre.OSInstance
    /\ ~SteppingTick =>
          ~(Made("pixelos_step") \/ Made("pixelos_get_framebuffer")
              \/ Made("Memcpy"))

\* C6 witness: a second step whose framebuffer was copied into the surface.
C6_Witness ==
    /\ SteppingTick /\ outcome = "void" /\ Fns = TickOrder
    /\ stepCount >= 2 /\ OSDisplayTexture.gen = stepCount

\* C7: when the framebuffer's length differs from the surface's width *
\* height * 4, the tick fails with SizeMismatch, nothing is copied and the
\* surface is as it was before the tick.
C7_SizeMismatchRejected ==
    (SteppingTick /\ lastFb # FbNull
        /\ lastFb.len # pre.OSDisplayTexture.width
                          * pre.OSDisplayTexture.height * BytesPerPixel) =>
        /\ outcome = "SizeMismatch"
        /\ ~Made("Memcpy")
        /\ OSDisplayTexture = pre.OSDisplayTexture

\* C8: when get_framebuffer returns null, the tick fails with
\* FrameUnavailable, the surface keeps its contents and the step of that tick
\* has been performed.
C8_FrameUnavailable ==
    (SteppingTick /\ outcome # "crash" /\ Made("pixelos_get_framebuffer")
        /\ lastFb = FbNull) =>
        /\ outcome = "FrameUnavailable"
        /\ OSDisplayTexture = pre.OSDisplayTexture
        /\ Made("pixelos_step")

\* C9: unload is safe from every reachable state: it returns, with nothing
\* loaded it changes no member and calls neither destroy nor the release, with
\* a live handle it destroys the handle and then releases the module, and it
\* leaves no live handle and no loaded module (so a second unload is a no-op).
C9_UnloadIdempotent ==
    lastOp = "EndPlay" =>
        /\ outcome = "void"
        /\ pre.FFIHandle = Null =>
              /\ calls = << >>
              /\ OSInstance = pre.OSInstance
        /\ pre.OSInstance # Null =>
              Fns = << "pixelos_destroy", "FreeDllHandle" >>
        /\ OSInstance = Null /\ FFIHandle = Null

\* C10: no entry point is invoked while the module is not loaded, and a boot
\* yields a live handle only from a session that holds the loaded module.
C10_EntriesOnlyWhileLoaded ==
    /\ \A i \in EntryCalls : calls[i].mapped
    /\ (lastOp = "BootOS" /\ OSInstance # Null) => pre.FFIHandle # Null

AllResolved ==
    /\ pixelos_create /\ pixelos_destroy /\ pixelos_step
    /\ pixelos_send_key /\ pixelos_get_framebuffer

\* C11: when create returns a null handle, BootOS fails with CreateFailed and
\* leaves the session inactive: no live handle and, on a session that had no
\* display surface, none allocated; a later tick invokes no entry.
C11_CreateFailedLeavesInactive ==
    /\ (lastOp = "BootOS" /\ Made("pixelos_create") /\ outcome # "crash"
          /\ OSInstance = Null) =>
          /\ outcome = "CreateFailed"
          /\ pre.OSDisplayTexture = NullTexture =>
                OSDisplayTexture = NullTexture
    /\ (lastOp = "TickComponent" /\ pre.OSInstance = Null) => calls = << >>

\* C12: after a load that opened the module but left at least one of the five
\* entry points unresolved, the module has been released again and the session
\* holds no module handle.
C12_MissingSymbolReleasesModule ==
    (lastOp = "BeginPlay" /\ Made("GetDllHandle") /\ ~AllResolved) =>
        /\ FFIHandle = Null
        /\ moduleRefs = 0

\* C13: the surface of a booted session is 1024 x 768 and holds exactly
\* width * height * 4 = 3145728 bytes, the configuration passed to create is
\* 1024 x 768, every copy is of exactly 3145728 bytes, and a copy from a
\* framebuffer of that length takes all of them from the framebuffer.
C13_SurfaceAndCopySize ==
    /\ OSInstance # Null =>
          /\ OSDisplayTexture.width = 1024 /\ OSDisplayTexture.height = 768
          /\ GetBulkDataSize(OSDisplayTexture) = 3145728
          /\ GetBulkDataSize(OSDisplayTexture)
                = OSDisplayTexture.width * OSDisplayTexture.height * 4
    /\ \A i \in DOMAIN calls :
          /\ calls[i].fn = "pixelos_create" =>
                calls[i].config = [width |-> 1024, height |-> 768]
          /\ calls[i].fn = "Memcpy" => calls[i].size = 3145728
    /\ (SteppingTick /\ outcome = "void" /\ Made("Memcpy")) =>
          /\ OSDisplayTexture.valid + OSDisplayTexture.over = 3145728
          /\ lastFb.len = 3145728 =>
                (OSDisplayTexture.valid = 3145728 /\ OSDisplayTexture.over = 0)

\* C13 witness: a tick that returned after copying a full-length framebuffer.
C13_Witness ==
    /\ SteppingTick /\ outcome = "void" /\ Made("Memcpy")
    /\ lastFb.len = 3145728 /\ OSDisplayTexture.valid = 3145728

\* C14: a live VM handle implies a display surface, in every state and in the
\* state every handler found, so every step that returns is followed in the
\* same tick by a get_framebuffer call.
C14_LiveHandleHasSurface ==
    /\ OSInstance # Null => OSDisplayTexture # NullTexture
    /\ pre.OSInstance # Null => pre.OSDisplayTexture # NullTexture
    /\ (SteppingTick /\ ~(Len(calls) = 1 /\ outcome = "crash")) =>
          /\ Len(calls) >= 2
          /\ calls[1].fn = "pixelos_step"
          /\ calls[2].fn = "pixelos_get_framebuffer"

\* C14 witness: a tick on a live handle whose step was followed by
\* get_framebuffer.
C14_Witness ==
    /\ SteppingTick /\ Len(calls) >= 2
    /\ calls[2].fn = "pixelos_get_framebuffer"
    /\ OSInstance # Null /\ OSDisplayTexture # NullTexture

\* C15: from one and the same state, BootOS called with any two names makes
\* the same calls with the same configuration and leaves the same state.
C15_BootIgnoresName ==
    \A n1 \in OSNames, n2 \in OSNames, works \in BOOLEAN,
       handle \in {Null} \cup Handles :
        BootBody(Enter(State, "BootOS"), n1, works, handle)
            = BootBody(Enter(State, "BootOS"), n2, works, handle)

\* C15 witness: a state in which BootOS, under either name, invokes create
\* with one configuration and ends with the same live handle and surface.
C15_Witness ==
    /\ outcome # "crash" /\ pixelos_create /\ nextHandle \in Handles
    /\ LET a == BootBody(Enter(State, "BootOS"), "PixelOS", TRUE, nextHandle)
           b == BootBody(Enter(State, "BootOS"), "Other", TRUE, nextHandle)
       IN  /\ a.OSInstance = nextHandle /\ b.OSInstance = nextHandle
           /\ Len(a.calls) = 1 /\ a.calls[1].config = b.calls[1].config
           /\ a.OSDisplayTexture = b.OSDisplayTexture
           /\ a.OSDisplayTexture # NullTexture

=============================================================================
